---- MODULE Spec2Model ----
(***************************************************************************)
(* Model of smallsh.c: the interpreter loop (main), the parser             *)
(* (getCommand), the dispatcher/launcher (execCommand), the reaper         *)
(* (cleanUp), the child branch after fork, and the operating-system        *)
(* events the shell reacts to (signals, child termination).                *)
(*                                                                         *)
(* Spec is the whole session, with each pass of the loop and each child's  *)
(* set-up as one step.  SpecLaunch follows one launch statement by         *)
(* statement (descriptors, files, order of calls); SpecParse follows the   *)
(* reader, the parser and freeCommand token by token (argv indices, heap). *)
(***************************************************************************)
EXTENDS Integers, Sequences, FiniteSets, TLC

\* ---------------------------------------------------------------- bounds
\* Number of successful forks in one session (pids are 1..MaxChildren).
MaxChildren == 2

\* ------------------------------------------------------------- constants
SIGINT == 2
SIGKILL == 9
SIGSEGV == 11
SIGTERM == 15

MAX_CMD_CHARS == 2048
MAX_CMD_ARGS == 512

\* Exit codes a launched program may return.
ExitCodes == {0, 3}

\* ---------------------------------------------------------------- tokens
\* A token is a sequence of characters; the null pointer is the empty one
\* (strtok never returns an empty token).
NULL == <<>>
Lt == <<"<">>
Gt == <<">">>
Amp == <<"&">>
TokExit == <<"e", "x", "i", "t">>
TokStatus == <<"s", "t", "a", "t", "u", "s">>
TokCd == <<"c", "d">>
Hash == <<"#">>
HashLs == <<"#", "l", "s">>
Ls == <<"l", "s">>
F == <<"f">>
DEVNULL == <<"/", "d", "e", "v", "/", "n", "u", "l", "l">>

\* The input lines offered to the reader, already split at DELIM.
Lines ==
    { <<>>, <<Hash>>, <<HashLs, Amp>>,
      <<TokExit>>, <<TokStatus>>, <<TokCd>>, <<TokCd, F>>,
      <<TokExit, Amp>>, <<TokCd, Gt, F>>,
      <<Ls>>, <<Ls, Amp>>,
      <<Ls, Lt, F, Gt, F>>, <<Ls, Gt, F, Amp>>,
      <<Ls, Amp, Gt>>, <<Ls, Lt>> }

\* More shapes of redirection, offered where one launch is followed
\* statement by statement.
RedirLines ==
    { <<Ls, Lt, F>>, <<Ls, Gt, F>>, <<Ls, Lt, F, Amp>>, <<Ls, Amp, Lt>>, <<Ls, Gt>> }

\* ----------------------------------------------------------- wait status
\* How a process ended: <<"exit", code>> or <<"signal", sig>>; WaitStatus
\* is the integer waitpid stores for it.
ExitStatus(code) == (code % 256) * 256
SignalStatus(sig) == sig % 128
WaitStatus(end) ==
    IF end[1] = "exit" THEN ExitStatus(end[2]) ELSE SignalStatus(end[2])
WIFEXITED(status) == status % 128 = 0
WEXITSTATUS(status) == (status \div 256) % 256
WIFSIGNALED(status) == status % 128 # 0 /\ status % 128 # 127
WTERMSIG(status) == status % 128

\* sprintf(ENDSTATE, "exit value %d", n) and its signal twin.
ExitValueText(n) == "exit value " \o ToString(n)
TermSignalText(n) == "terminated by signal " \o ToString(n)

\* ----------------------------------------------------------------- state
VARIABLES
    shell,        \* the shell process: [alive, end]
    sigtermDisp,  \* SIGTERM disposition the shell was started with
    pc,           \* where the shell is in main's loop
    exitCalled,   \* main's loop condition
    ENDSTATE,     \* the global exit/termination text
    cmdInfo,      \* the Command of the current iteration
    pid,          \* execCommand's pid (0 before any fork)
    child,        \* the processes created by fork, by pid
    nextPid,      \* the pid the next fork returns
    lastOut,      \* the last line the shell wrote to stdout
    reported,     \* per pid, how many "background pid .. is done" lines
    statusOut,    \* what the status built-ins printed since the last other command
    sweepStart,   \* the zombies found when the current sweep began, not yet collected
    errOut,       \* what the shell wrote to stderr since the last prompt
    launch,       \* one launch looked at statement by statement (SpecLaunch):
                  \* <<>> before the first, else one record; in Spec the
                  \* child branch is a single step and this stays <<>>
    parse         \* the reader, the parser and the shell's heap looked at
                  \* statement by statement (SpecParse): <<>> before the
                  \* first line, else one record; <<>> in Spec and SpecLaunch

\* initCommand
InitCommand ==
    [ argv |-> <<>>, isBgProcess |-> 0, wantsInputR |-> 0, wantsOutputR |-> 0,
      inRedirFile |-> NULL, outRedirFile |-> NULL ]

NoEnd == <<"none", 0>>

Tty == <<"t", "t", "y">>

\* Descriptors 0 and 1 as the shell is started.
StartFd == [fd \in {0, 1} |-> Tty]

\* The record of a launch before its fork.
LaunchRest ==
    [ fdTable |-> [p \in {"shell", "child"} |-> StartFd],
      cpc |-> "rest", ccmd |-> InitCommand, csigint |-> "ignore",
      trace |-> <<>>, cfail |-> "", cend |-> NoEnd, truncated |-> {} ]

\* The launch under the lens, field by field:
Launch == IF launch = <<>> THEN LaunchRest ELSE launch[1]
\* per process, what descriptors 0 and 1 are bound to
fdTable == Launch.fdTable
\* the statement the child is at in the pid == 0 branch
cpc == Launch.cpc
\* the child's copy of the Command
ccmd == Launch.ccmd
\* the child's SIGINT disposition
csigint == Launch.csigint
\* the system calls the child has made, in order
trace == Launch.trace
\* the call whose failure ended the child ("" if none)
cfail == Launch.cfail
\* how the child ended, if it did
cend == Launch.cend
\* the paths launched children created or truncated
truncated == Launch.truncated

zoomVars == << launch, parse >>
ZoomAtRest == launch = <<>> /\ parse = <<>>

vars == << shell, sigtermDisp, pc, exitCalled, ENDSTATE, cmdInfo, pid, child,
           nextPid, lastOut, reported, statusOut, sweepStart, errOut, zoomVars >>

Pids == 1 .. MaxChildren

\* A process entry: isBg is the role it was launched in; cmd is the child's
\* copy of the Command, gone with the image at exec or termination.
NoChild ==
    [ phase |-> "unborn", isBg |-> 0, cmd |-> InitCommand,
      sigintDisp |-> "ignore", pending |-> {}, end |-> NoEnd ]

\* The entry of a terminated process, and what is left once it is waited for.
Zombie(ch, end) ==
    [NoChild EXCEPT !.phase = "zombie", !.isBg = ch.isBg, !.end = end]
Reaped(ch) == [NoChild EXCEPT !.phase = "reaped", !.isBg = ch.isBg]

Init ==
    /\ shell = [alive |-> TRUE, end |-> NoEnd]
    /\ sigtermDisp \in {"default", "ignore"}
    /\ pc = "cleanUp"
    /\ exitCalled = 0
    /\ ENDSTATE = "NULL"
    /\ cmdInfo = InitCommand
    /\ pid = 0
    /\ child = [c \in Pids |-> NoChild]
    /\ nextPid = 1
    /\ lastOut = ""
    /\ reported = [c \in Pids |-> 0]
    /\ statusOut = <<>>
    /\ sweepStart = {}
    /\ errOut = ""
    /\ ZoomAtRest

Live(c) == child[c].phase \in {"forked", "running"}
Zombies == {c \in Pids : child[c].phase = "zombie"}


\* ---------------------------------------------------------------- parser
TokenAt(toks, i) == IF i <= Len(toks) THEN toks[i] ELSE NULL

\* The while (token) loop of getCommand over the tokens strtok yields.
\* strdupNull records that strdup was handed a null token.
RECURSIVE ParseLoop(_, _, _)
ParseLoop(toks, i, r) ==
    IF i > Len(toks) THEN r
    ELSE IF toks[i] = Lt THEN
        ParseLoop(toks, i + 2,
                  [r EXCEPT !.cmd.wantsInputR = 1,
                            !.cmd.inRedirFile = TokenAt(toks, i + 1),
                            !.strdupNull = @ \/ i + 1 > Len(toks)])
    ELSE IF toks[i] = Gt THEN
        ParseLoop(toks, i + 2,
                  [r EXCEPT !.cmd.wantsOutputR = 1,
                            !.cmd.outRedirFile = TokenAt(toks, i + 1),
                            !.strdupNull = @ \/ i + 1 > Len(toks)])
    ELSE IF toks[i] = Amp THEN
        ParseLoop(toks, i + 1, [r EXCEPT !.cmd.isBgProcess = 1])
    ELSE
        ParseLoop(toks, i + 1, [r EXCEPT !.cmd.argv = Append(@, toks[i])])

ParseTokens(toks) == ParseLoop(toks, 1, [cmd |-> InitCommand, strdupNull |-> FALSE])

\* The parse of every offered line.
Parsed == [line \in Lines \cup RedirLines |-> ParseTokens(line)]
Parse(line) == Parsed[line]

\* The tests execCommand makes on argv[0].
IsBlank(cmd) == Len(cmd.argv) = 0
IsComment(cmd) == ~IsBlank(cmd) /\ cmd.argv[1][1] = "#"
IsExit(cmd) == ~IsBlank(cmd) /\ ~IsComment(cmd) /\ cmd.argv[1] = TokExit
IsStatus(cmd) == ~IsBlank(cmd) /\ ~IsComment(cmd) /\ cmd.argv[1] = TokStatus
\* A dispatcher without the cd branch.
IsCdNever(cmd) == FALSE

IsCd(cmd) == ~IsBlank(cmd) /\ ~IsComment(cmd) /\ cmd.argv[1] = TokCd
IsExternal(cmd) ==
    ~IsBlank(cmd) /\ ~IsComment(cmd) /\ ~IsExit(cmd) /\ ~IsStatus(cmd) /\ ~IsCd(cmd)

\* ------------------------------------------------------------- the shell
\* main: action.sa_handler = SIG_IGN; sigaction(SIGINT, ...)
ShellSigintDisp == "ignore"

\* An if in place of the while: the sweep stops after one child.
SweepContinuesOnce(childPid) == FALSE

\* waitpid(-1, &status, WNOHANG) > 0 in cleanUp: one finished child is
\* collected and reported; the loop goes on while the call returns a pid.
SweepContinues(childPid) == childPid > 0

DoneText(c, status) ==
    IF WIFEXITED(status)
    THEN "background pid " \o ToString(c) \o " is done: exit value "
         \o ToString(WEXITSTATUS(status))
    ELSE "background pid " \o ToString(c) \o " is done: terminated by signal "
         \o ToString(WTERMSIG(status))

\* A sweep that records the collected child's status in ENDSTATE.
CleanUpEndStateWrites(endstate, status) ==
    IF WIFEXITED(status) THEN ExitValueText(WEXITSTATUS(status))
    ELSE TermSignalText(WTERMSIG(status))

\* What cleanUp leaves in ENDSTATE for a child it collected: nothing changes.
CleanUpEndState(endstate, status) == endstate

CleanUpReap(c) ==
    /\ shell.alive /\ pc = "cleanUp"
    /\ child[c].phase = "zombie"
    /\ child' = [child EXCEPT ![c] = Reaped(@)]
    /\ LET status == WaitStatus(child[c].end) IN
         /\ IF WIFEXITED(status) \/ WIFSIGNALED(status)
            THEN /\ lastOut' = DoneText(c, status)
                 /\ reported' = [reported EXCEPT ![c] = @ + 1]
            ELSE UNCHANGED << lastOut, reported >>
         /\ ENDSTATE' = CleanUpEndState(ENDSTATE, status)
    /\ pc' = IF SweepContinues(c) THEN "cleanUp" ELSE "getCommand"
    /\ sweepStart' = sweepStart \ {c}
    /\ UNCHANGED << shell, sigtermDisp, exitCalled, cmdInfo, pid, nextPid,
                    statusOut, errOut, zoomVars >>

\* waitpid returns 0 (children, none finished) or -1 (no children).
CleanUpEnd ==
    /\ shell.alive /\ pc = "cleanUp"
    /\ Zombies = {}
    /\ pc' = "getCommand"
    /\ UNCHANGED << shell, sigtermDisp, exitCalled, ENDSTATE, cmdInfo, pid,
                    child, nextPid, lastOut, reported, statusOut, sweepStart,
                    errOut, zoomVars >>

\* The shell is about to print the prompt and read a line.
AtPrompt == shell.alive /\ pc = "getCommand"

\* A line is offered only if the session can still fork for it.
Offered(line) == IsExternal(Parse(line).cmd) => nextPid <= MaxChildren

\* getCommand: the prompt is printed, a line is read and parsed into the
\* Command that main hands to execCommand.
GetCommand(line, cmd) ==
    /\ AtPrompt
    /\ Offered(line)
    /\ cmd = Parse(line).cmd

\* strdup(NULL) is undefined: besides going on with a null path
\* (GetCommand), the shell may die of a segmentation fault.
GetCommandCrash(line) ==
    /\ shell.alive /\ pc = "getCommand"
    /\ Offered(line)
    /\ Parse(line).strdupNull
    /\ lastOut' = ": "
    /\ shell' = [alive |-> FALSE, end |-> <<"signal", SIGSEGV>>]
    /\ errOut' = ""
    /\ UNCHANGED << sigtermDisp, pc, exitCalled, ENDSTATE, cmdInfo, pid, child,
                    nextPid, reported, statusOut, sweepStart, zoomVars >>

\* execCommand returns r to main: freeCommand(cmdInfo), then the test of
\* while (exitCalled == 0): back to cleanUp, or return 0.
ReturnToMain(r) ==
    /\ exitCalled' = r
    /\ cmdInfo' = InitCommand
    /\ IF r = 0
       THEN /\ pc' = "cleanUp"
            /\ sweepStart' = {c \in Pids : child'[c].phase = "zombie"}
            /\ UNCHANGED shell
       ELSE /\ shell' = [alive |-> FALSE, end |-> <<"exit", 0>>]
            /\ UNCHANGED << pc, sweepStart >>

\* Each Exec action is one pass of main's loop from the prompt on:
\* getCommand, the branch of execCommand the Command selects, and the
\* return to main.
ExecBlank(line) ==
    /\ AtPrompt
    /\ \E cmd \in {Parse(line).cmd} :
           /\ GetCommand(line, cmd)
           /\ IsBlank(cmd)
           /\ lastOut' = ": "
           /\ pid' = 0
           /\ errOut' = ""
           /\ UNCHANGED << sigtermDisp, ENDSTATE, child, nextPid, reported, statusOut,
                           zoomVars >>
           /\ ReturnToMain(0)

ExecComment(line) ==
    /\ AtPrompt
    /\ \E cmd \in {Parse(line).cmd} :
           /\ GetCommand(line, cmd)
           /\ IsComment(cmd)
           /\ lastOut' = ": "
           /\ pid' = 0
           /\ errOut' = ""
           /\ UNCHANGED << sigtermDisp, ENDSTATE, child, nextPid, reported, statusOut,
                           zoomVars >>
           /\ ReturnToMain(0)

\* kill(0, SIGTERM): the signal is generated for every process of the
\* group, the shell included.  A process that ignores it discards it; in
\* the caller it is delivered before kill returns, so that with the
\* default disposition the shell ends there.
ExecExit(line) ==
    /\ AtPrompt
    /\ \E cmd \in {Parse(line).cmd} :
           /\ GetCommand(line, cmd)
           /\ IsExit(cmd)
           /\ lastOut' = ": "
           /\ pid' = 0
           /\ child' = [c \in Pids |->
                          IF Live(c) /\ sigtermDisp = "default"
                          THEN [child[c] EXCEPT !.pending = @ \cup {SIGTERM}]
                          ELSE child[c]]
           /\ statusOut' = <<>>
           /\ errOut' = ""
           /\ UNCHANGED << sigtermDisp, ENDSTATE, nextPid, reported, zoomVars >>
           /\ IF sigtermDisp = "default"
              THEN /\ shell' = [alive |-> FALSE, end |-> <<"signal", SIGTERM>>]
                   /\ cmdInfo' = cmd
                   /\ UNCHANGED << exitCalled, pc, sweepStart >>
              ELSE ReturnToMain(1)

\* A status that prints without resetting.
StatusResetKeeps(endstate) == endstate

\* sprintf(ENDSTATE, "exit value 0") after the print.
StatusReset(endstate) == ExitValueText(0)

LastTwo(s) == IF Len(s) > 2 THEN SubSeq(s, Len(s) - 1, Len(s)) ELSE s

ExecStatus(line) ==
    /\ AtPrompt
    /\ \E cmd \in {Parse(line).cmd} :
           /\ GetCommand(line, cmd)
           /\ IsStatus(cmd)
           /\ lastOut' = ENDSTATE
           /\ pid' = 0
           /\ statusOut' = LastTwo(Append(statusOut, ENDSTATE))
           /\ ENDSTATE' = StatusReset(ENDSTATE)
           /\ errOut' = ""
           /\ UNCHANGED << sigtermDisp, child, nextPid, reported, zoomVars >>
           /\ ReturnToMain(0)

\* getenv("HOME"), called only when cd has no argument: the variable may
\* be missing from the environment.
Homes(cmd) == IF Len(cmd.argv) < 2 THEN {NULL, F} ELSE {NULL}

\* The directory cd changes to: HOME without an argument, else argv[1].
CdDirectory(cmd, home) == IF Len(cmd.argv) < 2 THEN home ELSE cmd.argv[2]

\* What chdir can return for a path: a null path is never a directory.
ChdirResults(directory) == IF directory = NULL THEN {-1} ELSE {0, -1}

NoSuchDirText == "no such file or directory"

\* A cd without the sprintf that precedes chdir.
CdEndStateNoReset(endstate, r) ==
    IF r = -1 THEN ExitValueText(1) ELSE endstate

\* sprintf(ENDSTATE, "exit value 0"), then "exit value 1" if chdir failed.
CdEndState(endstate, r) ==
    IF r = -1 THEN ExitValueText(1) ELSE ExitValueText(0)

\* home is what getenv returns, r what chdir returns.
ExecCd(line, home, r) ==
    /\ AtPrompt
    /\ \E cmd \in {Parse(line).cmd} :
           /\ GetCommand(line, cmd)
           /\ IsCd(cmd)
           /\ home \in Homes(cmd)
           /\ r \in ChdirResults(CdDirectory(cmd, home))
           /\ lastOut' = ": "
           /\ pid' = 0
           /\ ENDSTATE' = CdEndState(ENDSTATE, r)
           /\ errOut' = IF r = -1 THEN NoSuchDirText ELSE ""
           /\ statusOut' = <<>>
           /\ UNCHANGED << sigtermDisp, child, nextPid, reported, zoomVars >>
           /\ ReturnToMain(0)

\* A parent that waits whatever the role.
ParentAfterForkAlwaysWaits(isBgProcess) == "waitpid"

\* The parent branch after fork: a foreground command is waited for, a
\* background one is not and execCommand returns.
ParentAfterFork(isBgProcess) ==
    IF isBgProcess = 0 THEN "waitpid" ELSE "return"

ExecFork(line) ==
    /\ AtPrompt
    /\ \E cmd \in {Parse(line).cmd} :
           /\ GetCommand(line, cmd)
           /\ IsExternal(cmd)
           /\ nextPid <= MaxChildren
           /\ pid' = nextPid
           /\ nextPid' = nextPid + 1
           /\ child' = [child EXCEPT ![nextPid] =
                          [NoChild EXCEPT !.phase = "forked", !.cmd = cmd,
                                          !.isBg = cmd.isBgProcess,
                                          !.sigintDisp = ShellSigintDisp]]
           /\ statusOut' = <<>>
           /\ errOut' = ""
           /\ UNCHANGED << sigtermDisp, ENDSTATE, reported, zoomVars >>
           /\ IF ParentAfterFork(cmd.isBgProcess) = "waitpid"
              THEN /\ pc' = "waitpid"
                   /\ cmdInfo' = cmd
                   /\ lastOut' = ": "
                   /\ UNCHANGED << shell, exitCalled, sweepStart >>
              ELSE /\ lastOut' = "background pid is " \o ToString(nextPid)
                   /\ ReturnToMain(0)

\* A fork error branch that falls through to the return 0 of execCommand.
ParentForkErrorReturns == "return"

\* The branch for a negative pid leaves through exit, not through return.
ParentForkError == "exit"

\* A fork error that ends the shell with status 0.
ForkErrorEndZero == <<"exit", 0>>

\* exit(1) of the shell whose fork failed.
ForkErrorEnd == <<"exit", 1>>

\* fork returned a negative value: "fork error", exit(1).
ExecForkFail(line) ==
    /\ AtPrompt
    /\ \E cmd \in {Parse(line).cmd} :
           /\ GetCommand(line, cmd)
           /\ IsExternal(cmd)
           /\ lastOut' = ": "
           /\ errOut' = "fork error"
           /\ pid' = -1
           /\ statusOut' = <<>>
           /\ UNCHANGED << sigtermDisp, ENDSTATE, child, nextPid, reported, zoomVars >>
           /\ IF ParentForkError = "exit"
              THEN /\ shell' = [alive |-> FALSE, end |-> ForkErrorEnd]
                   /\ UNCHANGED << pc, exitCalled, cmdInfo, sweepStart >>
              ELSE ReturnToMain(0)

\* waitpid(-1, ...): any child ends the wait.
WaitTargetsAnyChild(p) == Pids

\* waitpid(pid, &status, 0): the children whose termination ends the wait.
WaitTargets(p) == {p}

\* A decoding that lacks the WIFSIGNALED branch.
EndStateOfExitOnly(status) == ExitValueText(WEXITSTATUS(status))

\* The text ENDSTATE gets for a wait status (unchanged if neither macro holds).
EndStateOf(status) ==
    IF WIFEXITED(status) THEN ExitValueText(WEXITSTATUS(status))
    ELSE IF WIFSIGNALED(status) THEN TermSignalText(WTERMSIG(status))
    ELSE ENDSTATE

\* A wait that prints the record for a normal exit too.
FgReportAlways(status, out) ==
    IF WIFEXITED(status) THEN ExitValueText(WEXITSTATUS(status))
    ELSE IF WIFSIGNALED(status) THEN TermSignalText(WTERMSIG(status))
    ELSE out

\* The last line on stdout after the wait: printf("%s\n", ENDSTATE) is in
\* the WIFSIGNALED branch only.
FgReport(status, out) ==
    IF WIFEXITED(status) THEN out
    ELSE IF WIFSIGNALED(status) THEN TermSignalText(WTERMSIG(status))
    ELSE out

\* The foreground branch from the return of waitpid to the return to main.
WaitFg(c) ==
    /\ shell.alive /\ pc = "waitpid"
    /\ c \in WaitTargets(pid)
    /\ child[c].phase = "zombie"
    /\ child' = [child EXCEPT ![c] = Reaped(@)]
    /\ LET status == WaitStatus(child[c].end) IN
         /\ ENDSTATE' = EndStateOf(status)
         /\ lastOut' = FgReport(status, lastOut)
    /\ UNCHANGED << sigtermDisp, pid, nextPid, reported, statusOut, errOut,
                    zoomVars >>
    /\ ReturnToMain(0)

\* ----------------------------------------------------- the child branch
\* A child that resets SIGINT whatever its role.
ChildSigintDispAlwaysDefault(isBgProcess, inherited) == "default"

\* if (cmdInfo->isBgProcess == 0) sigaction(SIGINT, SIG_DFL); otherwise
\* the ignore inherited from the shell stays.
ChildSigintDisp(isBgProcess, inherited) ==
    IF isBgProcess = 0 THEN "default" ELSE inherited

\* A substitution made whatever the role of the child.
ChildRedirFileAnyRole(isBgProcess, wants, file) ==
    IF file = NULL /\ wants = 1 THEN DEVNULL ELSE file

\* The null-device substitution of the background branch.
ChildRedirFile(isBgProcess, wants, file) ==
    IF isBgProcess # 0 /\ file = NULL /\ wants = 1 THEN DEVNULL ELSE file

\* A failed set-up that ends the child with status 0.
ChildErrorEndZero == <<"exit", 0>>

\* exit(1) of a child whose set-up failed.
ChildErrorEnd == <<"exit", 1>>

\* What open and dup2 can come to for a path: a null path never opens.
RedirResults(file) ==
    IF file = NULL THEN {"open"} ELSE {"ok", "open", "dup2"}

shellVars == << shell, sigtermDisp, pc, exitCalled, ENDSTATE, cmdInfo, pid,
                nextPid, lastOut, reported, statusOut, sweepStart, errOut,
                zoomVars >>

\* The child from fork to exec: signal disposition, input redirection,
\* output redirection, execvp, in that order; rin, rout and found are what
\* the opens and the exec come to.  The first failure ends the child, and
\* the steps after it are not taken (their outcomes are left at "ok").
ChildSetupErr(cmd, rin, rout, found) ==
    IF cmd.wantsInputR = 1 /\ rin # "ok"
    THEN (IF rin = "open" THEN "input" ELSE "dup2")
    ELSE IF cmd.wantsOutputR = 1 /\ rout # "ok"
    THEN (IF rout = "open" THEN "output" ELSE "dup2")
    ELSE IF ~found THEN "exec"
    ELSE "none"

ChildSetup(c, rin, rout, found) ==
    /\ child[c].phase = "forked"
    /\ LET isBg == child[c].cmd.isBgProcess
           cmd == [child[c].cmd EXCEPT
                     !.inRedirFile = ChildRedirFile(isBg, child[c].cmd.wantsInputR, @),
                     !.outRedirFile = ChildRedirFile(isBg, child[c].cmd.wantsOutputR, @)]
           disp == ChildSigintDisp(isBg, child[c].sigintDisp)
           err == ChildSetupErr(cmd, rin, rout, found)
       IN /\ rin \in (IF cmd.wantsInputR = 1 THEN RedirResults(cmd.inRedirFile) ELSE {"ok"})
          /\ rout \in (IF cmd.wantsOutputR = 1 /\ rin = "ok"
                        THEN RedirResults(cmd.outRedirFile) ELSE {"ok"})
          /\ (rin # "ok" \/ rout # "ok") => found
          /\ child' = [child EXCEPT ![c] =
                 IF err = "none"
                 THEN [@ EXCEPT !.phase = "running", !.cmd = InitCommand,
                                !.sigintDisp = disp]
                 ELSE Zombie(@, ChildErrorEnd)]
    /\ UNCHANGED shellVars

\* ------------------------------------- one launch, statement by statement
\* The same branch (lines 249-329) taken one statement at a time, with the
\* descriptors and the files it touches; the shell is held at the fork.
mainVars == << shell, sigtermDisp, pc, exitCalled, ENDSTATE, pid, child, nextPid,
               lastOut, reported, statusOut, sweepStart, errOut >>

\* A branch that redirects the output before the input.
ChildOrderOutputFirst == <<"signal", "output", "input", "exec">>

\* The statements of the pid == 0 branch in program order.
ChildOrder == <<"signal", "input", "output", "exec">>

StmtAfter(stmt) ==
    LET i == CHOOSE k \in 1 .. Len(ChildOrder) : ChildOrder[k] = stmt
    IN IF i < Len(ChildOrder) THEN ChildOrder[i + 1] ELSE "program"

\* Redirection code placed where the parent runs it.
RedirProcShell == "shell"

\* The open/dup2 code is inside if (pid == 0): the child runs it.
RedirProc == "child"

\* fork: the child gets a copy of the Command, of the descriptors and of
\* the signal dispositions.
LaunchFork(line) ==
    /\ cpc \in {"rest", "program", "exited"}
    /\ IsExternal(Parse(line).cmd)
    /\ cmdInfo' = Parse(line).cmd
    /\ launch' = << [LaunchRest EXCEPT
                       !.fdTable = [fdTable EXCEPT !.child = fdTable.shell],
                       !.cpc = ChildOrder[1],
                       !.ccmd = Parse(line).cmd,
                       !.csigint = ShellSigintDisp,
                       !.truncated = truncated] >>
    /\ UNCHANGED << mainVars, parse >>

\* Lines 254-273: SIGINT back to default for a foreground child, the null
\* device for a background child's path-less redirections.
ChildSignal ==
    /\ cpc = "signal"
    /\ launch' = << [Launch EXCEPT
         !.csigint = ChildSigintDisp(ccmd.isBgProcess, csigint),
         !.trace = IF ccmd.isBgProcess = 0 THEN Append(trace, "sigaction") ELSE trace,
         !.ccmd = [ccmd EXCEPT
             !.inRedirFile = ChildRedirFile(ccmd.isBgProcess, ccmd.wantsInputR, @),
             !.outRedirFile = ChildRedirFile(ccmd.isBgProcess, ccmd.wantsOutputR, @)],
         !.cpc = StmtAfter("signal")] >>
    /\ UNCHANGED << mainVars, cmdInfo, parse >>

\* The child leaves through exit(1) after the call named failed.
ChildFailed(call) ==
    [Launch EXCEPT !.cfail = call, !.cend = ChildErrorEnd, !.cpc = "exited"]

\* Lines 276-299: open(inRedirFile, O_RDONLY), dup2(fd, 0), close(fd).
ChildInput(res) ==
    /\ cpc = "input"
    /\ IF ccmd.wantsInputR = 1
       THEN /\ res \in RedirResults(ccmd.inRedirFile)
            /\ launch' = <<
                 IF res = "open"
                 THEN [ChildFailed("open input") EXCEPT
                         !.trace = trace \o <<"open input">>]
                 ELSE IF res = "dup2"
                 THEN [ChildFailed("dup2 0") EXCEPT
                         !.trace = trace \o <<"open input", "dup2 0">>]
                 ELSE [Launch EXCEPT
                         !.trace = trace \o <<"open input", "dup2 0">>,
                         !.fdTable[RedirProc][0] = ccmd.inRedirFile,
                         !.cpc = StmtAfter("input")] >>
       ELSE /\ res = "ok"
            /\ launch' = << [Launch EXCEPT !.cpc = StmtAfter("input")] >>
    /\ UNCHANGED << mainVars, cmdInfo, parse >>

\* Lines 302-321: open(outRedirFile, O_WRONLY | O_CREAT | O_TRUNC, 0644),
\* dup2(fd, 1), close(fd); a successful open creates or empties the file.
ChildOutput(res) ==
    /\ cpc = "output"
    /\ IF ccmd.wantsOutputR = 1
       THEN /\ res \in RedirResults(ccmd.outRedirFile)
            /\ launch' = <<
                 IF res = "open"
                 THEN [ChildFailed("open output") EXCEPT
                         !.trace = trace \o <<"open output">>]
                 ELSE IF res = "dup2"
                 THEN [ChildFailed("dup2 1") EXCEPT
                         !.trace = trace \o <<"open output", "dup2 1">>,
                         !.truncated = truncated \cup {ccmd.outRedirFile}]
                 ELSE [Launch EXCEPT
                         !.trace = trace \o <<"open output", "dup2 1">>,
                         !.truncated = truncated \cup {ccmd.outRedirFile},
                         !.fdTable[RedirProc][1] = ccmd.outRedirFile,
                         !.cpc = StmtAfter("output")] >>
       ELSE /\ res = "ok"
            /\ launch' = << [Launch EXCEPT !.cpc = StmtAfter("output")] >>
    /\ UNCHANGED << mainVars, cmdInfo, parse >>

\* Lines 324-328: execvp(argv[0], argv); found is whether it succeeds.
ChildExec(found) ==
    /\ cpc = "exec"
    /\ launch' = <<
         IF found
         THEN [Launch EXCEPT !.trace = Append(trace, "execvp"), !.cpc = "program"]
         ELSE [ChildFailed("execvp") EXCEPT !.trace = Append(trace, "execvp")] >>
    /\ UNCHANGED << mainVars, cmdInfo, parse >>

NextLaunch ==
    \/ \E line \in Lines \cup RedirLines : LaunchFork(line)
    \/ ChildSignal
    \/ \E res \in {"ok", "open", "dup2"} : ChildInput(res)
    \/ \E res \in {"ok", "open", "dup2"} : ChildOutput(res)
    \/ \E found \in BOOLEAN : ChildExec(found)

SpecLaunch == Init /\ [][NextLaunch]_vars

\* ------------------------------- the reader and parser, token by token
\* main's loop as far as the shell's memory goes: getCommand (lines
\* 111-174) one token at a time, execCommand, freeCommand.

\* How many blocks of the shell's heap an iteration may leave behind
\* before no further line is read.
MaxLeaked == 2

\* n one-character arguments.
ArgLine(n) == [k \in 1 .. n |-> F]

\* The lines offered to the reader here, by number.
ParseInput ==
    << <<>>, <<Ls>>, <<Ls, Amp>>, <<Ls, Lt, F, Gt, F>>, <<Ls, Amp, Gt>>,
       <<TokCd, F>>, <<TokStatus>>,
       ArgLine(MAX_CMD_ARGS - 1), ArgLine(MAX_CMD_ARGS), ArgLine(MAX_CMD_ARGS + 1) >>

\* The characters of tokens lo..hi of a line, one delimiter after each.
RECURSIVE LineChars(_, _, _)
LineChars(toks, lo, hi) ==
    IF lo > hi THEN 0
    ELSE IF lo = hi THEN Len(toks[lo]) + 1
    ELSE LET mid == (lo + hi) \div 2
         IN LineChars(toks, lo, mid) + LineChars(toks, mid + 1, hi)

\* fgets(input, MAX_CMD_CHARS, stdin) stores at most MAX_CMD_CHARS - 1
\* characters: the lines it can deliver whole.
Readable == {n \in DOMAIN ParseInput :
               LineChars(ParseInput[n], 1, Len(ParseInput[n])) <= MAX_CMD_CHARS - 1}

EmptyHeap == [cmd |-> 0, arg |-> 0, path |-> 0]

\* The record before the first line is read.
ParseRest ==
    [ ppc |-> "read", lineNo |-> 1, i |-> 1, argc |-> 0, lastIdx |-> -1,
      heap |-> EmptyHeap ]

\* The parser under the lens, field by field:
ParseState == IF parse = <<>> THEN ParseRest ELSE parse[1]
\* where the shell is: "read" (top of the loop), "loop" (while (token)),
\* "exec", or stopped: "crashed", "undefined"
ppc == ParseState.ppc
\* the tokens strtok yields for the line in input
input == ParseInput[ParseState.lineNo]
\* the index of the token strtok returns next
tokenIdx == ParseState.i
\* newCmd->argc
argc == ParseState.argc
\* the index of the latest write into newCmd->argv (-1: none yet)
lastIdx == ParseState.lastIdx
\* the blocks allocated in the shell: Command structs, duplicated
\* arguments, duplicated redirection paths
heap == ParseState.heap

parseFrame == << mainVars, cmdInfo, launch >>

\* freeCommand: free(garbage) releases the struct and nothing else.
FreeCommand(h) == [h EXCEPT !.cmd = @ - 1]

\* Lines 117-132: malloc, initCommand, the prompt, fgets, the first strtok.
ReadLine(n) ==
    /\ ppc = "read"
    /\ n \in Readable
    /\ heap.arg + heap.path <= MaxLeaked
    /\ parse' = << [ParseRest EXCEPT !.ppc = "loop", !.lineNo = n,
                                     !.heap = [heap EXCEPT !.cmd = @ + 1]] >>
    /\ UNCHANGED parseFrame

\* A write into argv[idx]: past the array the behaviour is undefined.
ArgvWrite(st, idx) ==
    [st EXCEPT !.lastIdx = idx,
               !.ppc = IF idx < MAX_CMD_ARGS THEN @ ELSE "undefined"]

\* One pass of while (token), lines 135-168.
ParseToken ==
    /\ ppc = "loop"
    /\ tokenIdx <= Len(input)
    /\ LET token == input[tokenIdx]
           st == ParseState
       IN IF token \in {Lt, Gt}
          THEN \* the path token may be missing: strdup(NULL) is undefined
               IF tokenIdx + 1 > Len(input)
               THEN \E outcome \in {"crashed", "loop"} :
                      parse' = << [st EXCEPT !.ppc = outcome, !.i = @ + 2] >>
               ELSE parse' = << [st EXCEPT !.i = @ + 2, !.heap.path = @ + 1] >>
          ELSE IF token = Amp
          THEN parse' = << [st EXCEPT !.i = @ + 1] >>
          ELSE parse' = << ArgvWrite([st EXCEPT !.i = @ + 1, !.argc = @ + 1,
                                               !.heap.arg = @ + 1], argc) >>
    /\ UNCHANGED parseFrame

\* Line 171: newCmd->argv[newCmd->argc] = NULL, and the return.
ParseTerminate ==
    /\ ppc = "loop"
    /\ tokenIdx > Len(input)
    /\ parse' = << ArgvWrite([ParseState EXCEPT !.ppc = "exec"], argc) >>
    /\ UNCHANGED parseFrame

\* Lines 73-75: execCommand returns 0, having allocated and freed nothing
\* in the shell; freeCommand; the loop goes round.
ExecAndFree ==
    /\ ppc = "exec"
    /\ parse' = << [ParseState EXCEPT
                      !.ppc = "read",
                      !.heap = FreeCommand(heap)] >>
    /\ UNCHANGED parseFrame

NextParse ==
    \/ \E n \in DOMAIN ParseInput : ReadLine(n)
    \/ ParseToken
    \/ ParseTerminate
    \/ ExecAndFree

SpecParse == Init /\ [][NextParse]_vars

\* --------------------------------------------------- the operating system
\* The launched program ends by itself.
ChildExit(c, code) ==
    /\ child[c].phase = "running"
    /\ child' = [child EXCEPT ![c] = Zombie(@, <<"exit", code>>)]
    /\ UNCHANGED shellVars

\* The launched program is killed from outside the session.
ChildKilled(c) ==
    /\ child[c].phase = "running"
    /\ child' = [child EXCEPT ![c] = Zombie(@, <<"signal", SIGKILL>>)]
    /\ UNCHANGED shellVars

\* A pending signal with default disposition terminates the process.
DeliverSignal(c, sig) ==
    /\ Live(c)
    /\ sig \in child[c].pending
    /\ child' = [child EXCEPT ![c] = Zombie(@, <<"signal", sig>>)]
    /\ UNCHANGED shellVars

\* The terminal's interrupt: SIGINT for the shell and every child of the
\* session; a process that ignores it discards it.
Interrupt ==
    /\ shell.alive \/ \E c \in Pids : Live(c)
    /\ child' = [c \in Pids |->
                   IF Live(c) /\ child[c].sigintDisp = "default"
                   THEN [child[c] EXCEPT !.pending = @ \cup {SIGINT}]
                   ELSE child[c]]
    /\ shell' = IF shell.alive /\ ShellSigintDisp = "default"
                THEN [alive |-> FALSE, end |-> <<"signal", SIGINT>>]
                ELSE shell
    /\ UNCHANGED << sigtermDisp, pc, exitCalled, ENDSTATE, cmdInfo, pid,
                    nextPid, lastOut, reported, statusOut, sweepStart, errOut,
                    zoomVars >>

Next ==
    \/ \E c \in Pids : CleanUpReap(c)
    \/ CleanUpEnd
    \/ \E line \in Lines : GetCommandCrash(line)
    \/ \E line \in Lines : ExecBlank(line)
    \/ \E line \in Lines : ExecComment(line)
    \/ \E line \in Lines : ExecExit(line)
    \/ \E line \in Lines : ExecStatus(line)
    \/ \E line \in Lines, home \in {NULL, F}, r \in {0, -1} : ExecCd(line, home, r)
    \/ \E line \in Lines : ExecFork(line)
    \/ \E line \in Lines : ExecForkFail(line)
    \/ \E c \in Pids : WaitFg(c)
    \/ \E c \in Pids, rin \in {"ok", "open", "dup2"}, rout \in {"ok", "open", "dup2"},
          found \in BOOLEAN : ChildSetup(c, rin, rout, found)
    \/ \E c \in Pids, code \in ExitCodes : ChildExit(c, code)
    \/ \E c \in Pids : ChildKilled(c)
    \/ \E c \in Pids, sig \in {SIGINT, SIGTERM} : DeliverSignal(c, sig)
    \/ Interrupt

Spec == Init /\ [][Next]_vars

\* ----------------------------------------------------------------- claims
FgPids == {c \in Pids : child[c].phase # "unborn" /\ child[c].isBg = 0}
BgPids == {c \in Pids : child[c].phase # "unborn" /\ child[c].isBg # 0}
KilledBySigint(c) == child[c].end = <<"signal", SIGINT>>

\* The text the record must hold for a way of ending.
RecordFor(end) ==
    IF end[1] = "exit" THEN "exit value " \o ToString(end[2])
    ELSE "terminated by signal " \o ToString(end[2])

\* The exit built-in was dispatched: kill was called in execCommand.
ExitDispatched ==
    exitCalled = 1 \/ (~shell.alive /\ pc = "getCommand" /\ IsExit(cmdInfo))

\* C1: an interrupt never ends the shell and never ends a background
\* child; SIGINT is pending for, or has killed, only a foreground child
\* that had reached its program.
C1_InterruptSparesShellAndBackground ==
    /\ shell.end # <<"signal", SIGINT>>
    /\ \A c \in Pids :
         /\ KilledBySigint(c) => child[c].isBg = 0
         /\ SIGINT \in child[c].pending
              => child[c].isBg = 0 /\ child[c].phase = "running"

\* A foreground child was killed by the interrupt while the shell and an
\* earlier background child, hit by the same interrupt, go on.
C1_Witness ==
    /\ shell.alive
    /\ \E c \in FgPids, b \in BgPids :
         b < c /\ KilledBySigint(c) /\ child[b].phase = "running"

\* C2: the shell blocks in waitpid only for a foreground child; a
\* background launch prints the pid and returns to main's loop at once.
C2_BackgroundLaunchNeverWaits ==
    /\ [](pc = "waitpid" => pid \in Pids /\ child[pid].isBg = 0)
    /\ [][(nextPid' # nextPid /\ child'[pid'].isBg # 0)
            => /\ pc' = "cleanUp"
               /\ lastOut' = "background pid is " \o ToString(pid')
               /\ child'[pid'].phase = "forked"]_vars

\* The shell is back at the sweep or the prompt with two background jobs
\* still running.
C2_Witness ==
    /\ shell.alive /\ pc \in {"cleanUp", "getCommand"}
    /\ Cardinality({c \in BgPids : Live(c)}) >= 2

\* C3: a foreground wait ends only when that very child has terminated,
\* and then ENDSTATE is the text for the way it ended; while it lasts,
\* ENDSTATE does not change.
C3_ForegroundWaitRecordsExactChild ==
    [][pc = "waitpid" =>
         IF pc' = "waitpid" THEN ENDSTATE' = ENDSTATE
         ELSE /\ child[pid].phase = "zombie"
              /\ child'[pid].phase = "reaped"
              /\ ENDSTATE' = RecordFor(child[pid].end)]_vars

\* A foreground wait has ended with the record of a killed child while a
\* background child that exited with another result is still uncollected.
C3_Witness ==
    /\ pc = "cleanUp" /\ pid \in FgPids
    /\ child[pid].phase = "reaped"
    /\ ENDSTATE = "terminated by signal 9"
    /\ lastOut = "terminated by signal 9"
    /\ \E b \in BgPids : child[b].phase = "zombie" /\ child[b].end = <<"exit", 0>>

\* C4: the second of two status invocations in a row prints "exit value 0".
C4_SecondStatusReportsZero ==
    Len(statusOut) = 2 => statusOut[2] = "exit value 0"

\* Two status invocations in a row, the first of which reported a failure
\* or a signal.
C4_Witness ==
    /\ Len(statusOut) = 2
    /\ statusOut[1] \notin {"NULL", "exit value 0"}

\* C5: ENDSTATE starts as "NULL" and every step that changes it is the
\* completion of a foreground wait, a cd or a status.
C5_EndStateFrame ==
    /\ ENDSTATE = "NULL"
    /\ [][ENDSTATE' # ENDSTATE
            => \/ \E c \in Pids : WaitFg(c)
               \/ \E line \in Lines, home \in {NULL, F}, r \in {0, -1} :
                      ExecCd(line, home, r)
               \/ \E line \in Lines : ExecStatus(line)]_vars

\* A background job was launched, ended and was reported by a sweep, and
\* ENDSTATE still holds its initial text.
C5_Witness ==
    /\ ENDSTATE = "NULL"
    /\ \E c \in BgPids : reported[c] = 1

\* C6: once the shell has ended through exit, no launched process is
\* still running.
C6_ExitLeavesNoProcessRunning ==
    (~shell.alive /\ ExitDispatched) => \A c \in Pids : ~Live(c)

\* C7: a shell that ended through exit ended by a normal exit with code 0.
C7_ExitEndsWithCodeZero ==
    (~shell.alive /\ ExitDispatched) => shell.end = <<"exit", 0>>

\* A step in which the set-up of child c fails.
SetupFails(c) ==
    /\ child[c].phase = "forked" /\ child'[c].phase # "forked"
    /\ \E rin \in {"ok", "open", "dup2"}, rout \in {"ok", "open", "dup2"},
          found \in BOOLEAN :
         /\ ~(rin = "ok" /\ rout = "ok" /\ found)
         /\ ChildSetup(c, rin, rout, found)

\* C8: a step in which a child's set-up fails ends that child with exit
\* status 1 and leaves the shell and every other process as they were;
\* when the wait for a foreground child that exited with 1 ends, the
\* shell is alive, back in its loop, and ENDSTATE is "exit value 1".
C8_SetupErrorEndsOnlyChild ==
    [][/\ \A c \in Pids : SetupFails(c)
            => /\ child'[c].phase = "zombie" /\ child'[c].end = <<"exit", 1>>
               /\ \A d \in Pids \ {c} : child'[d] = child[d]
               /\ shell' = shell /\ pc' = pc /\ ENDSTATE' = ENDSTATE
       /\ (pc = "waitpid" /\ pc' # "waitpid" /\ child[pid].end = <<"exit", 1>>)
            => shell'.alive /\ pc' = "cleanUp"
               /\ ENDSTATE' = "exit value 1"]_vars

\* The wait for a foreground child has ended with "exit value 1" (no
\* program returns 1 by itself) and the shell goes on.
C8_Witness ==
    /\ shell.alive /\ pc = "cleanUp" /\ pid \in FgPids
    /\ child[pid].phase = "reaped"
    /\ ENDSTATE = "exit value 1"
    /\ 1 \notin ExitCodes

\* C9: a background job is reported at most once, only by cleanUp, only
\* when it has terminated, and every collected background child was reported.
C9_OnlyTheSweepReports ==
    /\ [](\A c \in Pids :
            /\ reported[c] <= 1
            /\ reported[c] = 1 => child[c].phase = "reaped" /\ child[c].isBg # 0
            /\ (child[c].phase = "reaped" /\ child[c].isBg # 0) => reported[c] = 1)
    /\ [][\A c \in Pids : reported'[c] # reported[c]
            => pc = "cleanUp" /\ child[c].phase = "zombie"]_vars

\* A foreground wait has ended while a terminated background child stays
\* unreported and uncollected.
C9_Witness ==
    /\ pc = "cleanUp" /\ pid \in FgPids /\ child[pid].phase = "reaped"
    /\ \E b \in BgPids : child[b].phase = "zombie" /\ reported[b] = 0

\* C10: when a sweep is over, every child that was a zombie when it began
\* has been collected and reported.
C10_SweepCollectsAllFinished ==
    /\ [](pc # "cleanUp" => sweepStart = {})
    /\ [][\A c \in sweepStart \ sweepStart' :
            reported'[c] = 1 /\ child'[c].phase = "reaped"]_vars

\* A sweep has ended at the prompt: a finished job was reported and another
\* background job is still running.
C10_Witness ==
    /\ shell.alive /\ pc = "getCommand"
    /\ \E c \in BgPids : reported[c] = 1
    /\ \E b \in BgPids : child[b].phase = "running"

\* The shell has stopped: nothing of its own state changes any more.
ShellStopped ==
    UNCHANGED << shell, pc, exitCalled, ENDSTATE, cmdInfo, pid, nextPid, lastOut,
                 errOut, reported, statusOut, sweepStart >>

\* C11: a step in which fork fails writes "fork error" and ends the shell
\* process; from then on the shell takes no step: no sweep, no prompt, no
\* command.
C11_ForkFailureEndsShell ==
    /\ [][(pid' = -1 /\ pid # -1) => errOut' = "fork error" /\ ~shell'.alive]_vars
    /\ [][pid = -1 => ~shell.alive /\ ShellStopped]_vars

\* The fork for a later command failed: the shell is gone and a job it had
\* launched before is still running.
C11_Witness ==
    /\ pid = -1 /\ errOut = "fork error" /\ ~shell.alive
    /\ \E c \in Pids : child[c].phase = "running"

\* C12 as stated: after a fork failure the shell process is still alive.
C12_ForkFailureSparesShell == pid = -1 => shell.alive

\* C12 as amended: after a fork failure the shell process has ended with
\* exit status 1, inside execCommand: the loop condition was never set and
\* the loop did not go on to the next sweep.
C12_ForkFailureIsFatal ==
    pid = -1 => /\ ~shell.alive
                /\ shell.end = <<"exit", 1>>
                /\ exitCalled = 0
                /\ pc = "getCommand"

\* The fork for the first command of the session failed and the shell
\* exited with status 1.
C12_Witness ==
    /\ pid = -1 /\ nextPid = 1
    /\ shell = [alive |-> FALSE, end |-> <<"exit", 1>>]

Range(s) == {s[i] : i \in DOMAIN s}

\* C16: whatever was launched, descriptors 0 and 1 of the shell are bound
\* as at startup, and a child launched without a redirection for a stream
\* reaches exec with that stream bound as the shell's was at startup.
C16_ShellDescriptorsUntouched ==
    /\ fdTable.shell = StartFd
    /\ cpc \in {"exec", "program"}
         => /\ cmdInfo.wantsInputR = 0 => fdTable.child[0] = StartFd[0]
            /\ cmdInfo.wantsOutputR = 0 => fdTable.child[1] = StartFd[1]

\* An earlier command wrote its output to the file f; a later command
\* without redirection runs on the shell's original streams.
C16_Witness ==
    /\ F \in truncated
    /\ cpc = "program"
    /\ cmdInfo.wantsInputR = 0 /\ cmdInfo.wantsOutputR = 0
    /\ cmdInfo.isBgProcess = 0
    /\ fdTable.child = StartFd /\ fdTable.shell = StartFd

\* The place of a call in the order the claim fixes.
Rank(call) ==
    CASE call = "sigaction" -> 1
      [] call = "open input" -> 2
      [] call = "dup2 0" -> 3
      [] call = "open output" -> 4
      [] call = "dup2 1" -> 5
      [] call = "execvp" -> 6

\* C17: the child's calls come in the order signal disposition, input
\* redirection, output redirection, exec, and none of those wanted is
\* missing when the program runs; a child whose input open failed has
\* exited with status 1 without opening the output path and without exec,
\* and a file is created or truncated only by a step that opens it for output.
C17_ChildStepOrder ==
    /\ [](/\ \A i, j \in DOMAIN trace : i < j => Rank(trace[i]) < Rank(trace[j])
          /\ cpc = "program"
               => /\ "execvp" \in Range(trace)
                  /\ cmdInfo.isBgProcess = 0 => "sigaction" \in Range(trace)
                  /\ cmdInfo.wantsInputR = 1 => "dup2 0" \in Range(trace)
                  /\ cmdInfo.wantsOutputR = 1 => "dup2 1" \in Range(trace)
          /\ cfail = "open input"
               => /\ cend = <<"exit", 1>> /\ cpc = "exited"
                  /\ "open output" \notin Range(trace)
                  /\ "execvp" \notin Range(trace))
    /\ [][truncated' # truncated
            => /\ "open output" \in Range(trace') /\ "open output" \notin Range(trace)
               /\ cfail' # "open input"]_vars

\* Both redirections were requested, the input file could not be opened:
\* the child has exited with status 1 and no file was created or truncated.
C17_Witness ==
    /\ cmdInfo.wantsInputR = 1 /\ cmdInfo.wantsOutputR = 1
    /\ cmdInfo.inRedirFile # NULL /\ cmdInfo.outRedirFile # NULL
    /\ cfail = "open input" /\ cend = <<"exit", 1>>
    /\ trace = <<"sigaction", "open input">>
    /\ truncated = {}

\* The lines the claim says never fork, told by their first token alone.
NeverForks(line) ==
    \/ Len(line) = 0
    \/ line[1] \in {TokExit, TokStatus, TokCd}
    \/ line[1][1] = "#"

\* A pass of main's loop for the line.
ExecStep(line) ==
    \/ GetCommandCrash(line)
    \/ ExecBlank(line) \/ ExecComment(line) \/ ExecExit(line) \/ ExecStatus(line)
    \/ \E home \in {NULL, F}, r \in {0, -1} : ExecCd(line, home, r)
    \/ ExecFork(line) \/ ExecForkFail(line)

\* fork was called in the step: a process appeared, or fork failed.
ForkCalled ==
    \/ nextPid' # nextPid
    \/ pid' = -1 /\ pid # -1
    \/ \E c \in Pids : child[c].phase = "unborn" /\ child'[c].phase # "unborn"

\* C14: a step in which fork is called is the pass for a line with a first
\* argument that is no built-in and no comment, and is not the pass for a
\* blank line, a comment or a built-in, whatever markers the line carries.
C14_BuiltinsNeverFork ==
    [][ForkCalled
         => /\ \E line \in Lines :
                 ~NeverForks(line) /\ (ExecFork(line) \/ ExecForkFail(line))
            /\ ~ \E line \in Lines : NeverForks(line) /\ ExecStep(line)]_vars

\* "exit &" was dispatched in a session that never created a process.
C14_Witness ==
    /\ ~shell.alive /\ IsExit(cmdInfo) /\ cmdInfo.isBgProcess = 1
    /\ nextPid = 1
    /\ \A c \in Pids : child[c].phase = "unborn"

\* The offered lines whose first argument is cd.
CdLines == {line \in Lines : Len(line) > 0 /\ line[1] = TokCd}

\* The line gives cd no directory argument.
CdWithoutArgument(line) == Len(line) < 2 \/ line[2] \in {Lt, Gt, Amp}

\* C15: a pass for cd leaves ENDSTATE at exactly "exit value 0" if chdir
\* succeeded and "exit value 1" if it failed; without an argument and
\* without HOME it fails; in every case the shell is alive afterwards and
\* back at the sweep that precedes the next prompt.
C15_CdSetsExitValue ==
    [][(AtPrompt /\ pc' = "cleanUp" /\ nextPid' = nextPid)
         => \A line \in CdLines, home \in {NULL, F}, r \in {0, -1} :
              ExecCd(line, home, r)
                => /\ ENDSTATE' = IF r = 0 THEN "exit value 0" ELSE "exit value 1"
                   /\ (CdWithoutArgument(line) /\ home = NULL)
                        => ENDSTATE' = "exit value 1"
                   /\ errOut' # "" => ENDSTATE' = "exit value 1"
                   /\ shell'.alive /\ shell' = shell
                   /\ exitCalled' = 0]_vars

\* A cd has failed in a session that launched nothing: the shell is alive
\* at the next prompt with "exit value 1" recorded.
C15_Witness ==
    /\ shell.alive /\ pc = "getCommand"
    /\ errOut = NoSuchDirText
    /\ ENDSTATE = "exit value 1"
    /\ nextPid = 1

\* C18: the step that ends a foreground wait leads straight to the next
\* sweep; if the child was killed by signal N the line "terminated by
\* signal N" is on stdout after that step, with no status invocation; if
\* it exited, the step prints nothing (the prompt is still the last thing
\* written) and only ENDSTATE holds the result.
C18_SignalDeathPrintedAtOnce ==
    [][(pc = "waitpid" /\ pc' # "waitpid")
         => /\ pc' = "cleanUp"
            /\ statusOut' = statusOut
            /\ IF child[pid].end[1] = "signal"
               THEN lastOut' = "terminated by signal " \o ToString(child[pid].end[2])
               ELSE /\ lastOut' = lastOut /\ lastOut = ": "
                    /\ ENDSTATE' = "exit value " \o ToString(child[pid].end[2])]_vars

\* A foreground child was killed by the interrupt: the line is out before
\* the sweep, and no status was invoked.
C18_Witness ==
    /\ pc = "cleanUp" /\ pid \in FgPids /\ child[pid].phase = "reaped"
    /\ lastOut = "terminated by signal 2" /\ ENDSTATE = lastOut
    /\ statusOut = <<>>

\* C19: at the top of the loop no block allocated by an earlier parse is
\* still allocated in the shell: no Command, no duplicated argument, no
\* duplicated redirection path.
C19_DescriptorFullyReleased == ppc = "read" => heap = EmptyHeap

\* C20: every write the parser has made into argv, the terminating null
\* included, was at an index below MAX_CMD_ARGS.
C20_ArgvWritesInBounds == lastIdx < MAX_CMD_ARGS
====
